---- MODULE Spec2Model ----
(***************************************************************************)
(* A model of AsyncValueTemplate<ValueType, ErrorType, ProgressType>       *)
(* (qt-async-lib/values/AsyncValueTemplate.h) and of the fields it         *)
(* inherits from AsyncValueBase (values/AsyncValueBase.h).                 *)
(*                                                                         *)
(* One cell is shared by the threads 1..NThreads.  A member function is    *)
(* cut into steps where it takes a lock that another thread may hold,      *)
(* where it releases the content lock, where it emits stateChanged and     *)
(* where it blocks on a QWaitCondition; pc[t] is the position of thread t. *)
(* A thread that has called a function and waits for its first lock is     *)
(* not told apart from one that has not called yet.  The statements a      *)
(* thread runs between QWaitCondition::wait re-locking m_writeLock and the *)
(* next wait or the return are one step: every field they touch is only    *)
(* written under m_writeLock.                                              *)
(*                                                                         *)
(* Q_ASSERT is modelled as in a release build: the function goes on with   *)
(* the next statement.  lastReturn, stateChanged and assertFailed describe *)
(* the step that led to the current state: the call that returned in it,   *)
(* the signal emitted in it, the assertions that failed in it.             *)
(***************************************************************************)
EXTENDS Integers, Sequences, FiniteSets, TLC

\* ---------------------------------------------------------------- bounds

\* number of threads that use the cell
NThreads == 3
\* number of member-function calls made on the cell in one behaviour of Spec
MaxOps == 4
\* number of member-function calls made on the cell in one behaviour of SpecWait
MaxWaitOps == 6
\* number of distinct payloads (values, errors)
MaxVal == 2
\* number of distinct addresses a ProgressType instance can live at
MaxProg == 2

\* ------------------------------------------------------- program constants

\* nullptr; also "no thread" for a lock owner
Null == 0
\* quint16 subWaiters: arithmetic is modulo 2^16
SubWaitersModulus == 65536

Threads == 1..NThreads
Payloads == 1..MaxVal
ProgressIds == 1..MaxProg

\* struct Content { unique_ptr<ValueType> value; unique_ptr<ErrorType> error; }
EmptyContent == [value |-> Null, error |-> Null]

VARIABLES
    m_state,        \* ASYNC_VALUE_STATE: "VALUE", "ERROR" or "PROGRESS"
    m_content,      \* Content: [value, error], Null for an empty unique_ptr
    m_progress,     \* unique_ptr<ProgressType>: a ProgressIds address or Null
    m_writeLock,    \* QMutex: the thread that holds it, or Null
    m_contentLock,  \* QReadWriteLock: [writer: thread or Null, readers: set]
    m_waiter,       \* Waiter*: the thread on whose stack the Waiter lives, or Null
    waiterObjs,     \* the threads whose stack currently holds a live Waiter
    subWaiters,     \* Waiter::subWaiters of the Waiter on each thread's stack
    cv,             \* per thread: the Waiter whose QWaitCondition it waits on
    crashed,        \* the process has dereferenced a null Waiter*
    stopRequested,  \* whether requestStop() was called on the instance m_progress owns
    pc,             \* per thread: position in the member function it runs
    op,             \* per thread: the member function it runs
    arg,            \* per thread: the argument of that call
    ret,            \* per thread: the value the call is about to return
    called,         \* per thread: the callables the call has invoked, in order
    oldContent,     \* per thread: the local Content oldContent
    callers,        \* the threads that may still call a member function
    budget,         \* number of calls the threads may still make
    oneShot,        \* whether a thread calls one member function only
    lastReturn,     \* the call that returned in the last step, if one did
    stateChanged,   \* the state of the stateChanged signal emitted in the last step
    assertFailed,   \* the Q_ASSERTs that failed in the last step
    invoked         \* the callables invoked in the last step

cellVars == <<m_state, m_content, m_progress, stopRequested>>
lockVars == <<m_writeLock, m_contentLock>>
waitVars == <<m_waiter, waiterObjs, subWaiters, cv>>
localVars == <<op, arg, ret, called>>
quotaVars == <<callers, budget, oneShot>>
vars == <<m_state, m_content, m_progress, m_writeLock, m_contentLock, m_waiter,
          waiterObjs, subWaiters, cv, crashed, pc, op, arg, ret, called,
          oldContent, callers, budget, oneShot, lastReturn, stateChanged,
          assertFailed, invoked, stopRequested>>

\* ------------------------------------------------------------- helpers

\* return values: none yet, void, a bool, a ProgressType* (Null for nullptr)
RetNone == [kind |-> "none", val |-> Null]
RetVoid == [kind |-> "void", val |-> Null]
RetBool(b) == [kind |-> "bool", val |-> IF b THEN 1 ELSE 0]
RetPtr(p) == [kind |-> "ptr", val |-> p]

NoReturn == [op |-> "none", arg |-> Null, ret |-> RetNone, called |-> <<>>]
NoSignal == "none"

Goto(t, l) == pc' = [pc EXCEPT ![t] = l]

\* thread t may call a member function now
MayCall(t) ==
    /\ ~crashed
    /\ pc[t] = "idle"
    /\ t \in callers
    /\ budget > 0

\* the threads run the same code, so they are numbered in the order of their
\* first calls: the first call of thread t lets thread t + 1 in
Spend(t) ==
    /\ budget' = budget - 1
    /\ callers' = IF oneShot THEN callers \ {t}
                   ELSE callers \cup ({t + 1} \cap Threads)
    /\ UNCHANGED oneShot

\* thread t calls member function o with argument a and takes its first step
Begin(t, o, a) ==
    /\ MayCall(t)
    /\ Spend(t)
    /\ op' = [op EXCEPT ![t] = o]
    /\ arg' = [arg EXCEPT ![t] = a]
    /\ lastReturn' = NoReturn

\* a step inside a call that neither begins nor ends it
Inside(t, l) ==
    /\ ~crashed
    /\ pc[t] = l
    /\ lastReturn' = NoReturn
    /\ UNCHANGED <<op, arg, quotaVars>>

\* the call of thread t returns r after invoking the callables c
Return(t, r, c) ==
    /\ lastReturn' = [op |-> op[t], arg |-> arg[t], ret |-> r, called |-> c]
    /\ op' = [op EXCEPT ![t] = "none"]
    /\ arg' = [arg EXCEPT ![t] = Null]
    /\ ret' = [ret EXCEPT ![t] = RetNone]
    /\ called' = [called EXCEPT ![t] = <<>>]
    /\ UNCHANGED quotaVars

\* thread t calls o(a), which returns r in its first step
BeginAndReturn(t, o, a, r) ==
    /\ MayCall(t)
    /\ Spend(t)
    /\ lastReturn' = [op |-> o, arg |-> a, ret |-> r, called |-> <<>>]
    /\ UNCHANGED <<localVars, pc>>

\* no signal is emitted, no assertion fails and no callable is invoked in
\* this step
Silent ==
    /\ stateChanged' = NoSignal
    /\ assertFailed' = {}
    /\ invoked' = <<>>

\* the callables c are invoked in this step
Invoke(c) ==
    /\ stateChanged' = NoSignal
    /\ assertFailed' = {}
    /\ invoked' = c

\* a mutex that is handed to whoever asks
C12_LockAnyway(t) == m_writeLock' = t

\* QMutexLocker writeLocker(&m_writeLock): blocks while another thread holds it
LockWrite(t) ==
    /\ m_writeLock = Null
    /\ m_writeLock' = t

\* a write lock that does not wait for the readers to leave
C13_IgnoreReaders(t) ==
    /\ m_contentLock.writer = Null
    /\ m_contentLock' = [m_contentLock EXCEPT !.writer = t]

\* QWriteLocker locker(&m_contentLock): blocks while readers or a writer hold it
LockContentForWrite(t) ==
    /\ m_contentLock.writer = Null
    /\ m_contentLock.readers = {}
    /\ m_contentLock' = [m_contentLock EXCEPT !.writer = t]

\* QReadLocker locker(&m_contentLock): blocks while a writer holds it
LockContentForRead(t) ==
    /\ m_contentLock.writer = Null
    /\ m_contentLock' = [m_contentLock EXCEPT !.readers = @ \cup {t}]

\* emitStateChanged(): emit stateChanged(m_state) on the calling thread
emitStateChanged ==
    stateChanged' = m_state

\* a wakeAll that wakes no thread
C1_WakeNone(p) == p

\* if (m_waiter) m_waiter->waitValue.wakeAll(): every thread blocked on
\* waitValue of that Waiter leaves the wait and has to re-lock the mutex;
\* p gives the positions of the other threads
WakeAllWaitValue(p) ==
    [u \in Threads |->
        IF m_waiter # Null /\ cv[u] = m_waiter /\ pc[u] = "w_prim_wait"
            THEN "w_prim_woken"
        ELSE IF m_waiter # Null /\ cv[u] = m_waiter /\ pc[u] = "w_sub_wait"
            THEN "w_sub_woken"
        ELSE p[u]]

\* ------------------------------------------------------------ moveValue

\* Content oldContent; QMutexLocker writeLocker(&m_writeLock);
moveValue_lockW(t, v) ==
    /\ Begin(t, "moveValue", v)
    /\ LockWrite(t)
    /\ Goto(t, "mv_swap")
    /\ Silent
    /\ UNCHANGED <<cellVars, m_contentLock, waitVars, crashed, ret, called,
                   oldContent>>

\* a moveValue whose swap also releases the progress instance
C16_SwapReleasesProgress(t) ==
    /\ Inside(t, "mv_swap")
    /\ LockContentForWrite(t)
    /\ oldContent' = [oldContent EXCEPT ![t] = m_content]
    /\ m_content' = [EmptyContent EXCEPT !.value = arg[t]]
    /\ m_state' = "VALUE"
    /\ m_progress' = Null
    /\ stopRequested' = FALSE
    /\ Goto(t, "mv_unlockC")
    /\ Silent
    /\ UNCHANGED <<m_writeLock, waitVars, crashed, ret, called>>

\* the swap of moveValue under QWriteLocker: the old content moves out, the
\* value moves in, the state becomes VALUE
moveValue_swap(t) ==
    /\ Inside(t, "mv_swap")
    /\ LockContentForWrite(t)
    /\ oldContent' = [oldContent EXCEPT ![t] = m_content]
    /\ m_content' = [EmptyContent EXCEPT !.value = arg[t]]
    /\ m_state' = "VALUE"
    /\ Goto(t, "mv_unlockC")
    /\ Silent
    /\ UNCHANGED <<m_progress, stopRequested, m_writeLock, waitVars, crashed, ret,
                   called>>

\* the closing brace of the QWriteLocker block
moveValue_unlockC(t) ==
    /\ Inside(t, "mv_unlockC")
    /\ m_contentLock' = [m_contentLock EXCEPT !.writer = Null]
    /\ Goto(t, "mv_emit")
    /\ Silent
    /\ UNCHANGED <<cellVars, m_writeLock, waitVars, crashed, ret, called,
                   oldContent>>

\* a moveValue that skips emitStateChanged()
C14_NoEmit(t) ==
    /\ Inside(t, "mv_emit")
    /\ Silent
    /\ Goto(t, "mv_wake")
    /\ UNCHANGED <<cellVars, lockVars, waitVars, crashed, ret, called, oldContent>>

\* emitStateChanged() of moveValue, after the QWriteLocker block
moveValue_emit(t) ==
    /\ Inside(t, "mv_emit")
    /\ emitStateChanged
    /\ assertFailed' = {}
    /\ invoked' = <<>>
    /\ Goto(t, "mv_wake")
    /\ UNCHANGED <<cellVars, lockVars, waitVars, crashed, ret, called, oldContent>>

\* if (m_waiter) m_waiter->waitValue.wakeAll(); then the return: writeLocker
\* unlocks and oldContent is destroyed
moveValue_wake(t) ==
    /\ ~crashed
    /\ pc[t] = "mv_wake"
    /\ pc' = WakeAllWaitValue([pc EXCEPT ![t] = "idle"])
    /\ m_writeLock' = Null
    /\ oldContent' = [oldContent EXCEPT ![t] = EmptyContent]
    /\ Return(t, RetVoid, called[t])
    /\ Silent
    /\ UNCHANGED <<cellVars, m_contentLock, waitVars, crashed>>

\* ------------------------------------------------------------ moveError

moveError_lockW(t, e) ==
    /\ Begin(t, "moveError", e)
    /\ LockWrite(t)
    /\ Goto(t, "me_swap")
    /\ Silent
    /\ UNCHANGED <<cellVars, m_contentLock, waitVars, crashed, ret, called,
                   oldContent>>

\* a swap of moveError that does not move the old content out
C9_SwapKeepsOld(t) ==
    /\ Inside(t, "me_swap")
    /\ LockContentForWrite(t)
    /\ oldContent' = [oldContent EXCEPT ![t] = EmptyContent]
    /\ m_content' = [m_content EXCEPT !.error = arg[t]]
    /\ m_state' = "ERROR"
    /\ Goto(t, "me_unlockC")
    /\ Silent
    /\ UNCHANGED <<m_progress, stopRequested, m_writeLock, waitVars, crashed, ret,
                   called>>

\* the swap of moveError under QWriteLocker: the old content moves out, the
\* error moves in, the state becomes ERROR
moveError_swap(t) ==
    /\ Inside(t, "me_swap")
    /\ LockContentForWrite(t)
    /\ oldContent' = [oldContent EXCEPT ![t] = m_content]
    /\ m_content' = [EmptyContent EXCEPT !.error = arg[t]]
    /\ m_state' = "ERROR"
    /\ Goto(t, "me_unlockC")
    /\ Silent
    /\ UNCHANGED <<m_progress, stopRequested, m_writeLock, waitVars, crashed, ret,
                   called>>

\* a moveError that wakes the waiters before it notifies
C15_WakeEarly(t) ==
    /\ Inside(t, "me_unlockC")
    /\ m_contentLock' = [m_contentLock EXCEPT !.writer = Null]
    /\ pc' = WakeAllWaitValue([pc EXCEPT ![t] = "me_emit"])
    /\ Silent
    /\ UNCHANGED <<cellVars, m_writeLock, waitVars, crashed, ret, called,
                   oldContent>>

\* the closing brace of the QWriteLocker block of moveError
moveError_unlockC(t) ==
    /\ Inside(t, "me_unlockC")
    /\ m_contentLock' = [m_contentLock EXCEPT !.writer = Null]
    /\ Goto(t, "me_emit")
    /\ Silent
    /\ UNCHANGED <<cellVars, m_writeLock, waitVars, crashed, ret, called,
                   oldContent>>

moveError_emit(t) ==
    /\ Inside(t, "me_emit")
    /\ emitStateChanged
    /\ assertFailed' = {}
    /\ invoked' = <<>>
    /\ Goto(t, "me_wake")
    /\ UNCHANGED <<cellVars, lockVars, waitVars, crashed, ret, called, oldContent>>

moveError_wake(t) ==
    /\ ~crashed
    /\ pc[t] = "me_wake"
    /\ pc' = WakeAllWaitValue([pc EXCEPT ![t] = "idle"])
    /\ m_writeLock' = Null
    /\ oldContent' = [oldContent EXCEPT ![t] = EmptyContent]
    /\ Return(t, RetVoid, called[t])
    /\ Silent
    /\ UNCHANGED <<cellVars, m_contentLock, waitVars, crashed>>

\* ---------------------------------------------------- startProgressMove

\* the addresses of the ProgressType instances that exist: the one the cell
\* owns and the ones held by the argument of a running startProgressMove
LiveProgress ==
    ({m_progress} \cup {arg[u] : u \in {x \in Threads :
                                          op[x] = "startProgressMove"}})
        \ {Null}

\* a startProgressMove that never refuses
C7_NeverRefused == FALSE

\* if (m_state == ASYNC_VALUE_STATE::PROGRESS): the call is refused
startProgressMove_refused == m_state = "PROGRESS"

\* Content oldContent; QMutexLocker writeLocker(&m_writeLock); the state is
\* not PROGRESS.  std::make_unique gave p an address no live instance has
startProgressMove_lockW(t, p) ==
    /\ p \notin LiveProgress
    /\ ~startProgressMove_refused
    /\ Begin(t, "startProgressMove", p)
    /\ LockWrite(t)
    /\ Goto(t, "sp_swap")
    /\ Silent
    /\ UNCHANGED <<cellVars, m_contentLock, waitVars, crashed, ret, called,
                   oldContent>>

\* the same in state PROGRESS: the assertion fails and nullptr is returned
startProgressMove_fail(t, p) ==
    /\ p \notin LiveProgress
    /\ startProgressMove_refused
    /\ m_writeLock = Null
    /\ BeginAndReturn(t, "startProgressMove", p, RetPtr(Null))
    /\ assertFailed' = {"Cannot start progress while in progress"}
    /\ stateChanged' = NoSignal
    /\ invoked' = <<>>
    /\ UNCHANGED <<cellVars, lockVars, waitVars, crashed, oldContent>>

\* a swap of startProgressMove that leaves the old content in place
C17_SwapKeepsContent(t) ==
    /\ Inside(t, "sp_swap")
    /\ LockContentForWrite(t)
    /\ oldContent' = [oldContent EXCEPT ![t] = EmptyContent]
    /\ m_content' = m_content
    /\ m_progress' = arg[t]
    /\ stopRequested' = FALSE
    /\ m_state' = "PROGRESS"
    /\ Goto(t, "sp_unlockC")
    /\ Silent
    /\ UNCHANGED <<m_writeLock, waitVars, crashed, ret, called>>

\* the swap of startProgressMove under QWriteLocker: the old content moves
\* out, the progress moves into m_progress, the state becomes PROGRESS
startProgressMove_swap(t) ==
    /\ Inside(t, "sp_swap")
    /\ LockContentForWrite(t)
    /\ oldContent' = [oldContent EXCEPT ![t] = m_content]
    /\ m_content' = EmptyContent
    /\ m_progress' = arg[t]
    /\ stopRequested' = FALSE
    /\ m_state' = "PROGRESS"
    /\ Goto(t, "sp_unlockC")
    /\ Silent
    /\ UNCHANGED <<m_writeLock, waitVars, crashed, ret, called>>

startProgressMove_unlockC(t) ==
    /\ Inside(t, "sp_unlockC")
    /\ m_contentLock' = [m_contentLock EXCEPT !.writer = Null]
    /\ Goto(t, "sp_emit")
    /\ Silent
    /\ UNCHANGED <<cellVars, m_writeLock, waitVars, crashed, ret, called,
                   oldContent>>

startProgressMove_emit(t) ==
    /\ Inside(t, "sp_emit")
    /\ emitStateChanged
    /\ assertFailed' = {}
    /\ invoked' = <<>>
    /\ Goto(t, "sp_ret")
    /\ UNCHANGED <<cellVars, lockVars, waitVars, crashed, ret, called, oldContent>>

\* return m_progress.get(); writeLocker unlocks, then oldContent is destroyed
startProgressMove_ret(t) ==
    /\ ~crashed
    /\ pc[t] = "sp_ret"
    /\ m_writeLock' = Null
    /\ oldContent' = [oldContent EXCEPT ![t] = EmptyContent]
    /\ Return(t, RetPtr(m_progress), called[t])
    /\ Goto(t, "idle")
    /\ Silent
    /\ UNCHANGED <<cellVars, m_contentLock, waitVars, crashed>>

\* --------------------------------------------------------- stopProgress

\* if (progress && (progress != m_progress.get()))
stopProgress_mismatch(h) == h # Null /\ h # m_progress

\* the test of stopProgress inverted
C6_NotInProgress == m_state # "PROGRESS"

\* if (m_state == ASYNC_VALUE_STATE::PROGRESS)
stopProgress_inProgress == m_state = "PROGRESS"

\* what stopProgress(h) returns
stopProgress_result(h) == ~stopProgress_mismatch(h) /\ ~stopProgress_inProgress

\* the Q_ASSERT that fails in stopProgress(h), if one does
stopProgress_asserts(h) ==
    IF stopProgress_mismatch(h)
        THEN {"Progress was started with different progress instance"}
    ELSE IF stopProgress_inProgress THEN {"No value or error assigned"}
    ELSE {}

\* a stopProgress that releases the progress before it tests anything
C8_ReleaseFirst(t, h) ==
    /\ m_writeLock = Null
    /\ BeginAndReturn(t, "stopProgress", h, RetBool(stopProgress_result(h)))
    /\ m_progress' = Null
    /\ stopRequested' = FALSE
    /\ assertFailed' = stopProgress_asserts(h)
    /\ stateChanged' = NoSignal
    /\ invoked' = <<>>
    /\ UNCHANGED <<m_state, m_content, lockVars, waitVars, crashed, oldContent>>

\* stopProgress(h), all of it under QMutexLocker writeLocker(&m_writeLock);
\* the handle is nullptr (the default argument) or any ProgressType address
stopProgress(t, h) ==
    /\ m_writeLock = Null
    /\ BeginAndReturn(t, "stopProgress", h, RetBool(stopProgress_result(h)))
    /\ m_progress' = IF stopProgress_result(h) THEN Null ELSE m_progress
    /\ stopRequested' = (~stopProgress_result(h) /\ stopRequested)
    /\ assertFailed' = stopProgress_asserts(h)
    /\ stateChanged' = NoSignal
    /\ invoked' = <<>>
    /\ UNCHANGED <<m_state, m_content, lockVars, waitVars, crashed, oldContent>>

\* --------------------------------------------------------------- access

\* a callable invoked with a payload or a progress instance
Invocation(f, x) == [fn |-> f, with |-> x]

\* void access(valuePred, errorPred, progressPred): the switch on m_state
access3_invoke(st, c, p) ==
    IF st = "VALUE" THEN <<Invocation("valuePred", c.value)>>
    ELSE IF st = "ERROR" THEN <<Invocation("errorPred", c.error)>>
    ELSE <<Invocation("progressPred", p)>>

\* bool access(valuePred, errorPred): the switch on m_state
access2_invoke(st, c) ==
    IF st = "VALUE" THEN <<Invocation("valuePred", c.value)>>
    ELSE IF st = "ERROR" THEN <<Invocation("errorPred", c.error)>>
    ELSE <<>>

\* an access that handles the error but reports it as a failure
C10_ValueOnly(st) == st = "VALUE"

access2_result(st) == st \in {"VALUE", "ERROR"}

\* bool access(valuePred)
access1_invoke(st, c) ==
    IF st # "VALUE" THEN <<>> ELSE <<Invocation("valuePred", c.value)>>

\* bool accessError(errorPred)
accessError_invoke(st, c) ==
    IF st # "ERROR" THEN <<>> ELSE <<Invocation("errorPred", c.error)>>

\* an accessProgress that never invokes its callable
C11_InvokesNothing(st, p) == <<>>

\* bool accessProgress(progressPred)
accessProgress_invoke(st, p) ==
    IF st # "PROGRESS" THEN <<>> ELSE <<Invocation("progressPred", p)>>

AccessOps == {"access3", "access2", "access1", "accessError", "accessProgress"}

\* what overload o invokes, and what it returns, for the state it reads
AccessInvoke(o, st, c, p) ==
    CASE o = "access3" -> access3_invoke(st, c, p)
      [] o = "access2" -> access2_invoke(st, c)
      [] o = "access1" -> access1_invoke(st, c)
      [] o = "accessError" -> accessError_invoke(st, c)
      [] o = "accessProgress" -> accessProgress_invoke(st, p)

AccessReturn(o, st) ==
    CASE o = "access3" -> RetVoid
      [] o = "access2" -> RetBool(access2_result(st))
      [] o = "access1" -> RetBool(st = "VALUE")
      [] o = "accessError" -> RetBool(st = "ERROR")
      [] o = "accessProgress" -> RetBool(st = "PROGRESS")

\* QReadLocker locker(&m_contentLock) of overload o; the callable runs under
\* the read lock
access_enter(t, o) ==
    /\ Begin(t, o, Null)
    /\ LockContentForRead(t)
    /\ called' = [called EXCEPT ![t] =
                    AccessInvoke(o, m_state, m_content, m_progress)]
    /\ ret' = [ret EXCEPT ![t] = AccessReturn(o, m_state)]
    /\ Goto(t, "acc_unlockR")
    /\ Invoke(AccessInvoke(o, m_state, m_content, m_progress))
    /\ UNCHANGED <<cellVars, m_writeLock, waitVars, crashed, oldContent>>

\* return: the QReadLocker unlocks
access_leave(t) ==
    /\ ~crashed
    /\ pc[t] = "acc_unlockR"
    /\ m_contentLock' = [m_contentLock EXCEPT !.readers = @ \ {t}]
    /\ Return(t, ret[t], called[t])
    /\ Goto(t, "idle")
    /\ Silent
    /\ UNCHANGED <<cellVars, m_writeLock, waitVars, crashed, oldContent>>

\* ------------------------------------------------------------------ wait

\* "easy case": access(valuePred, errorPred) without the write lock
wait_fast(t) ==
    /\ Begin(t, "wait", Null)
    /\ LockContentForRead(t)
    /\ called' = [called EXCEPT ![t] = access2_invoke(m_state, m_content)]
    /\ Goto(t, IF access2_result(m_state) THEN "w_fastHit" ELSE "w_fastMiss")
    /\ Invoke(access2_invoke(m_state, m_content))
    /\ UNCHANGED <<cellVars, m_writeLock, waitVars, crashed, ret, oldContent>>

\* if (access(valuePred, errorPred)) return;
wait_fastReturn(t) ==
    /\ ~crashed
    /\ pc[t] = "w_fastHit"
    /\ m_contentLock' = [m_contentLock EXCEPT !.readers = @ \ {t}]
    /\ Return(t, RetVoid, called[t])
    /\ Goto(t, "idle")
    /\ Silent
    /\ UNCHANGED <<cellVars, m_writeLock, waitVars, crashed, oldContent>>

\* the easy case failed: on to QMutexLocker writeLocker(&m_writeLock)
wait_fastMiss(t) ==
    /\ Inside(t, "w_fastMiss")
    /\ m_contentLock' = [m_contentLock EXCEPT !.readers = @ \ {t}]
    /\ Goto(t, "w_lockW")
    /\ Silent
    /\ UNCHANGED <<cellVars, m_writeLock, waitVars, crashed, ret, called,
                   oldContent>>

\* thread t at position l gets m_writeLock, by QMutexLocker or when
\* QWaitCondition::wait locks it again, and can read the content
HasWriteLock(t, l) ==
    /\ ~crashed
    /\ pc[t] = l
    /\ m_writeLock = Null
    /\ m_contentLock.writer = Null

\* "check easy case again" under the write lock: it succeeds and wait returns
wait_recheckHit(t) ==
    /\ HasWriteLock(t, "w_lockW")
    /\ access2_result(m_state)
    /\ Return(t, RetVoid, called[t] \o access2_invoke(m_state, m_content))
    /\ Goto(t, "idle")
    /\ Invoke(access2_invoke(m_state, m_content))
    /\ UNCHANGED <<cellVars, lockVars, waitVars, crashed, oldContent>>

\* if (!m_waiter): Waiter theWaiter; m_waiter = &theWaiter;
\* m_waiter->waitValue.wait(&m_writeLock) unlocks the mutex and blocks
wait_primary(t) ==
    /\ HasWriteLock(t, "w_lockW")
    /\ ~access2_result(m_state)
    /\ m_waiter = Null
    /\ waiterObjs' = waiterObjs \cup {t}
    /\ subWaiters' = [subWaiters EXCEPT ![t] = 0]
    /\ m_waiter' = t
    /\ cv' = [cv EXCEPT ![t] = t]
    /\ Goto(t, "w_prim_wait")
    /\ lastReturn' = NoReturn
    /\ Silent
    /\ UNCHANGED <<cellVars, lockVars, crashed, localVars, quotaVars, oldContent>>

\* else: m_waiter->subWaiters += 1; m_waiter->waitValue.wait(&m_writeLock)
wait_sub(t) ==
    /\ HasWriteLock(t, "w_lockW")
    /\ ~access2_result(m_state)
    /\ m_waiter # Null
    /\ subWaiters' = [subWaiters EXCEPT
                        ![m_waiter] = (@ + 1) % SubWaitersModulus]
    /\ cv' = [cv EXCEPT ![t] = m_waiter]
    /\ Goto(t, "w_sub_wait")
    /\ lastReturn' = NoReturn
    /\ Silent
    /\ UNCHANGED <<cellVars, lockVars, m_waiter, waiterObjs, crashed, localVars,
                   quotaVars, oldContent>>

\* the threads still blocked on waitValue of the Waiter on t's stack
BlockedOn(t) ==
    {u \in Threads : cv[u] = t /\ pc[u] \in {"w_prim_wait", "w_sub_wait"}}

\* m_waiter = nullptr; then theWaiter goes out of scope and wait returns with
\* the callables c invoked.  Destroying a QWaitCondition that threads still wait
\* on is undefined: the destructor returns and they stay on a destroyed
\* condition, or it never returns and the mutex stays locked
Unpublish(t, c) ==
    /\ m_waiter' = Null
    /\ \/ /\ waiterObjs' = waiterObjs \ {t}
          /\ subWaiters' = [subWaiters EXCEPT ![t] = 0]
          /\ cv' = [cv EXCEPT ![t] = Null]
          /\ pc' = [u \in Threads |->
                      IF u = t THEN "idle"
                      ELSE IF u \in BlockedOn(t) THEN "w_dangling"
                      ELSE pc[u]]
          /\ Return(t, RetVoid, c)
          /\ UNCHANGED m_writeLock
       \/ /\ BlockedOn(t) # {}
          /\ Goto(t, "w_prim_hung")
          /\ called' = [called EXCEPT ![t] = c]
          /\ m_writeLock' = t
          /\ lastReturn' = NoReturn
          /\ UNCHANGED <<waiterObjs, subWaiters, cv, op, arg, ret, quotaVars>>

\* Q_ASSERT(res && "access should succeed") on the result of the access
AssertAccess(st) ==
    IF access2_result(st) THEN {} ELSE {"access should succeed"}

\* the primary after waitValue.wait: access, then the atExit of the primary:
\* with sub waiters left it blocks on waitSubWaiters, otherwise it unpublishes
wait_primaryAccess(t) ==
    /\ HasWriteLock(t, "w_prim_woken")
    /\ assertFailed' = AssertAccess(m_state)
    /\ invoked' = access2_invoke(m_state, m_content)
    /\ IF m_waiter # Null /\ subWaiters[m_waiter] > 0
          THEN /\ Goto(t, "w_prim_drain")
               /\ called' = [called EXCEPT
                               ![t] = @ \o access2_invoke(m_state, m_content)]
               /\ cv' = [cv EXCEPT ![t] = m_waiter]
               /\ lastReturn' = NoReturn
               /\ UNCHANGED <<m_waiter, waiterObjs, subWaiters, m_writeLock, op,
                              arg, ret, quotaVars>>
          ELSE Unpublish(t, called[t] \o access2_invoke(m_state, m_content))
    /\ stateChanged' = NoSignal
    /\ UNCHANGED <<cellVars, m_contentLock, crashed, oldContent>>

\* Q_ASSERT(m_waiter->subWaiters == 0) after waitSubWaiters.wait
AssertDrained ==
    IF m_waiter # Null /\ subWaiters[m_waiter] = 0
        THEN {} ELSE {"m_waiter->subWaiters == 0"}

\* the primary after waitSubWaiters.wait: the assertion, then it unpublishes
wait_primaryExit(t) ==
    /\ HasWriteLock(t, "w_prim_drained")
    /\ assertFailed' = AssertDrained
    /\ invoked' = <<>>
    /\ Unpublish(t, called[t])
    /\ stateChanged' = NoSignal
    /\ UNCHANGED <<cellVars, m_contentLock, crashed, oldContent>>

\* m_waiter->waitSubWaiters.wakeAll(): the primary blocked on it leaves the wait
WakeAllSubWaiters(w, p) ==
    [u \in Threads |->
        IF cv[u] = w /\ pc[u] = "w_prim_drain" THEN "w_prim_drained" ELSE p[u]]

\* a sub waiter after waitValue.wait: access, then the atExit of a sub waiter:
\* m_waiter->subWaiters -= 1, and wakeAll on waitSubWaiters when it is 0.
\* With m_waiter == nullptr the decrement dereferences a null pointer
wait_subAccess(t) ==
    /\ HasWriteLock(t, "w_sub_woken")
    /\ assertFailed' = AssertAccess(m_state)
    /\ invoked' = access2_invoke(m_state, m_content)
    /\ IF m_waiter = Null
          THEN /\ crashed' = TRUE
               /\ called' = [called EXCEPT
                               ![t] = @ \o access2_invoke(m_state, m_content)]
               /\ lastReturn' = NoReturn
               /\ UNCHANGED <<subWaiters, cv, pc, op, arg, ret, quotaVars>>
          ELSE /\ subWaiters' = [subWaiters EXCEPT
                      ![m_waiter] = (@ - 1 + SubWaitersModulus) % SubWaitersModulus]
               /\ cv' = [cv EXCEPT ![t] = Null]
               /\ pc' = IF subWaiters'[m_waiter] = 0
                        THEN WakeAllSubWaiters(m_waiter, [pc EXCEPT ![t] = "idle"])
                        ELSE [pc EXCEPT ![t] = "idle"]
               /\ Return(t, RetVoid, called[t] \o access2_invoke(m_state, m_content))
               /\ UNCHANGED crashed
    /\ stateChanged' = NoSignal
    /\ UNCHANGED <<cellVars, lockVars, m_waiter, waiterObjs, oldContent>>

\* a wait on a destroyed QWaitCondition may return at any time
wait_danglingWake(t) ==
    /\ Inside(t, "w_dangling")
    /\ Goto(t, "w_sub_woken")
    /\ Silent
    /\ UNCHANGED <<cellVars, lockVars, waitVars, crashed, ret, called, oldContent>>

\* ----------------------------------------------------------- stopAndWait

\* ProgressType::requestStop() on the instance m_progress owns, when the
\* callables c of an accessProgress include the one of stopAndWait
requestStop(c) == stopRequested \/ c # <<>>

\* ProgressType::isStopRequested() on the instance m_progress owns
isStopRequested == stopRequested

\* accessProgress([](ProgressType& progress){ progress.requestStop(); }): the
\* callable runs under the read lock
stopAndWait_access(t) ==
    /\ Begin(t, "stopAndWait", Null)
    /\ LockContentForRead(t)
    /\ called' = [called EXCEPT ![t] = accessProgress_invoke(m_state, m_progress)]
    /\ stopRequested' = requestStop(accessProgress_invoke(m_state, m_progress))
    /\ Goto(t, "sw_unlockR")
    /\ Invoke(accessProgress_invoke(m_state, m_progress))
    /\ UNCHANGED <<m_state, m_content, m_progress, m_writeLock, waitVars, crashed,
                   ret, oldContent>>

\* accessProgress returns: the QReadLocker unlocks
stopAndWait_leave(t) ==
    /\ Inside(t, "sw_unlockR")
    /\ m_contentLock' = [m_contentLock EXCEPT !.readers = @ \ {t}]
    /\ Goto(t, "sw_wait")
    /\ Silent
    /\ UNCHANGED <<cellVars, m_writeLock, waitVars, crashed, ret, called,
                   oldContent>>

\* wait(): the "easy case" of wait(AsyncNoOp(), AsyncNoOp())
stopAndWait_wait(t) ==
    /\ Inside(t, "sw_wait")
    /\ LockContentForRead(t)
    /\ called' = [called EXCEPT ![t] = @ \o access2_invoke(m_state, m_content)]
    /\ Goto(t, IF access2_result(m_state) THEN "w_fastHit" ELSE "w_fastMiss")
    /\ Invoke(access2_invoke(m_state, m_content))
    /\ UNCHANGED <<cellVars, m_writeLock, waitVars, crashed, ret, oldContent>>

\* ------------------------------------------------- the operation (demo)

\* the error the operation of the demo sets when it is asked to stop
StoppedError == CHOOSE e \in Payloads : \A x \in Payloads : x <= e

\* if (progress.isStopRequested()) { value.emplaceError("Stopped"); return; }
\* a poll that finds no request changes nothing
operation_stopped(t) ==
    /\ isStopRequested
    /\ moveError_lockW(t, StoppedError)

\* ----------------------------------------------------------- the system

\* what is not the cell's content, right after construction
InitRest ==
    /\ m_writeLock = Null
    /\ m_contentLock = [writer |-> Null, readers |-> {}]
    /\ m_waiter = Null
    /\ waiterObjs = {}
    /\ subWaiters = [t \in Threads |-> 0]
    /\ cv = [t \in Threads |-> Null]
    /\ assertFailed = {}
    /\ invoked = <<>>
    /\ crashed = FALSE
    /\ stopRequested = FALSE
    /\ pc = [t \in Threads |-> "idle"]
    /\ op = [t \in Threads |-> "none"]
    /\ arg = [t \in Threads |-> Null]
    /\ ret = [t \in Threads |-> RetNone]
    /\ called = [t \in Threads |-> <<>>]
    /\ oldContent = [t \in Threads |-> EmptyContent]
    /\ lastReturn = NoReturn

\* the payload the cell is constructed with (payloads are interchangeable)
InitialPayload == CHOOSE x \in Payloads : TRUE

\* AsyncValueTemplate(parent, AsyncInitByValue, ...) and (parent, AsyncInitByError,
\* ...): the base is constructed with the state, then emplaceValue/emplaceError
\* stores the payload and emits stateChanged
Constructed ==
    /\ m_state \in {"VALUE", "ERROR"}
    /\ m_content = IF m_state = "VALUE"
                   THEN [EmptyContent EXCEPT !.value = InitialPayload]
                   ELSE [EmptyContent EXCEPT !.error = InitialPayload]
    /\ m_progress = Null
    /\ stateChanged = m_state
    /\ InitRest

\* the thread that owns the cell and is the one to change it; the other
\* threads read it and wait for it
Owner == CHOOSE t \in Threads : \A u \in Threads : t <= u
Clients == Threads \ {Owner}

Init ==
    /\ Constructed
    /\ budget = MaxOps
    /\ oneShot = FALSE
    /\ callers = {Owner, Owner + 1}

moveValue(t) ==
    \/ \E v \in Payloads : moveValue_lockW(t, v)
    \/ moveValue_swap(t)
    \/ moveValue_unlockC(t)
    \/ moveValue_emit(t)
    \/ moveValue_wake(t)

moveError(t) ==
    \/ \E e \in Payloads : moveError_lockW(t, e)
    \/ moveError_swap(t)
    \/ moveError_unlockC(t)
    \/ moveError_emit(t)
    \/ moveError_wake(t)

startProgressMove(t) ==
    \/ \E p \in ProgressIds : startProgressMove_lockW(t, p)
    \/ \E p \in ProgressIds : startProgressMove_fail(t, p)
    \/ startProgressMove_swap(t)
    \/ startProgressMove_unlockC(t)
    \/ startProgressMove_emit(t)
    \/ startProgressMove_ret(t)

access(t) ==
    \/ \E o \in AccessOps : access_enter(t, o)
    \/ access_leave(t)

wait(t) ==
    \/ wait_fast(t)
    \/ wait_fastReturn(t)
    \/ wait_fastMiss(t)
    \/ wait_recheckHit(t)
    \/ wait_primary(t)
    \/ wait_sub(t)
    \/ wait_primaryAccess(t)
    \/ wait_primaryExit(t)
    \/ wait_subAccess(t)

Next ==
    \/ moveValue(Owner)
    \/ moveError(Owner)
    \/ startProgressMove(Owner)
    \/ \E h \in ProgressIds \cup {Null} : stopProgress(Owner, h)
    \/ \E t \in Clients : access(t) \/ wait(t)

Spec == Init /\ [][Next]_vars

\* any thread sets, restarts and waits
InitWait ==
    /\ Constructed
    /\ budget = MaxWaitOps
    /\ oneShot = FALSE
    /\ callers = {Owner}

NextWait ==
    \E t \in Threads :
        \/ moveValue(t)
        \/ moveError(t)
        \/ startProgressMove(t)
        \/ wait(t)
        \/ wait_danglingWake(t)

SpecWait == InitWait /\ [][NextWait]_vars

\* any thread sets, starts and stops a progress and waits, MaxOps calls in all
InitShared ==
    /\ Constructed
    /\ budget = MaxOps
    /\ oneShot = FALSE
    /\ callers = {Owner}

NextShared ==
    \E t \in Threads :
        \/ moveValue(t)
        \/ moveError(t)
        \/ startProgressMove(t)
        \/ \E h \in ProgressIds \cup {Null} : stopProgress(t, h)
        \/ wait(t)

SpecShared == InitShared /\ [][NextShared]_vars

\* a progress has been started; every client calls wait once, the owner calls
\* moveValue once, in any order, and every thread goes on running
InitC1 ==
    /\ m_state = "PROGRESS"
    /\ m_content = EmptyContent
    /\ m_progress \in ProgressIds
    /\ stateChanged = NoSignal
    /\ InitRest
    /\ budget = NThreads
    /\ oneShot = TRUE
    /\ callers = Threads

NextC1 ==
    \/ moveValue(Owner)
    \/ \E t \in Clients : wait(t)

FairC1 ==
    /\ WF_vars(moveValue(Owner))
    /\ \A t \in Clients : WF_vars(wait(t))

SpecC1 == InitC1 /\ [][NextC1]_vars /\ FairC1

\* the steps of wait after its easy case
wait_slow(t) ==
    \/ wait_fastReturn(t)
    \/ wait_fastMiss(t)
    \/ wait_recheckHit(t)
    \/ wait_primary(t)
    \/ wait_sub(t)
    \/ wait_primaryAccess(t)
    \/ wait_primaryExit(t)
    \/ wait_subAccess(t)

stopAndWait(t) ==
    \/ stopAndWait_access(t)
    \/ stopAndWait_leave(t)
    \/ stopAndWait_wait(t)
    \/ wait_slow(t)

\* the operation thread of the demo once it polls: it sets the error "Stopped"
\* when it finds the stop request
operation(t) ==
    \/ operation_stopped(t)
    \/ moveError_swap(t)
    \/ moveError_unlockC(t)
    \/ moveError_emit(t)
    \/ moveError_wake(t)

\* the thread that calls stopAndWait, and the threads that wait
Stopper == Owner + 1
Waiters == Threads \ {Owner, Stopper}

\* a progress has been started and its operation runs on the owner thread;
\* one thread calls stopAndWait, the others call wait, each once, in any order
NextStop ==
    \/ operation(Owner)
    \/ stopAndWait(Stopper)
    \/ \E t \in Waiters : wait(t)

FairStop ==
    /\ WF_vars(operation(Owner))
    /\ WF_vars(stopAndWait(Stopper))
    /\ \A t \in Waiters : WF_vars(wait(t))

SpecStop == InitC1 /\ [][NextStop]_vars /\ FairStop

\* the owner starts progresses and sets values while the clients call
\* stopAndWait, MaxOps calls in all, from a settled cell
NextStopRace ==
    \/ moveValue(Owner)
    \/ startProgressMove(Owner)
    \/ \E t \in Clients : stopAndWait(t)

SpecStopRace == Init /\ [][NextStopRace]_vars

\* ------------------------------------------------------------------ C1

AllReturned ==
    /\ callers = {}
    /\ \A t \in Threads : pc[t] = "idle"

NoWaitGroup ==
    /\ m_waiter = Null
    /\ waiterObjs = {}
    /\ \A t \in Threads : subWaiters[t] = 0 /\ cv[t] = Null

\* C1: with a progress started, every thread that calls wait returns once one
\* thread has called moveValue(x) and all threads keep running: each wait
\* returns having invoked the value callable, and only it, with x, and in the
\* end no wait group is published and no thread is registered in one
C1_AllWaitersReturn ==
    /\ [](lastReturn.op = "moveValue" => m_content.value = lastReturn.arg)
    /\ [](lastReturn.op = "wait" =>
            /\ m_state = "VALUE"
            /\ m_content.value \in Payloads
            /\ lastReturn.called = <<Invocation("valuePred", m_content.value)>>)
    /\ <>[](AllReturned /\ NoWaitGroup /\ m_state = "VALUE")

\* all clients were blocked in wait when moveValue woke them
C1_Witness ==
    /\ lastReturn.op = "moveValue"
    /\ \A t \in Clients : pc[t] \in {"w_prim_woken", "w_sub_woken"}

\* ------------------------------------------------------------------ C2

\* C2: a call of wait returns only after it has invoked exactly one of its two
\* callables, exactly once (the callables are only invoked in a settled state)
C2_WaitInvokesOneCallable ==
    lastReturn.op = "wait" =>
        /\ Len(lastReturn.called) = 1
        /\ lastReturn.called[1].fn \in {"valuePred", "errorPred"}

\* ------------------------------------------------------------------ C3

\* C3: the access of a woken waiter succeeds: neither assertion "access should
\* succeed" of wait ever fails
C3_RecheckSucceeds == "access should succeed" \notin assertFailed

\* ------------------------------------------------------------------ C4

\* C4: a thread blocked on waitValue is blocked on the Waiter that m_waiter
\* points to, and that Waiter is alive
C4_BlockedOnPublished ==
    \A t \in Threads :
        pc[t] \in {"w_prim_wait", "w_sub_wait", "w_dangling"} =>
            /\ m_waiter # Null
            /\ cv[t] = m_waiter
            /\ m_waiter \in waiterObjs

\* ------------------------------------------------------------------ C5

\* C5: when the primary waiter unpublishes its Waiter, subWaiters is 0, no
\* thread is blocked on the Waiter and the assertion subWaiters == 0 holds
C5_DrainedAtUnpublish ==
    [][(m_waiter # Null /\ m_waiter' = Null) =>
            /\ subWaiters[m_waiter] = 0
            /\ BlockedOn(m_waiter) = {}
            /\ "m_waiter->subWaiters == 0" \notin assertFailed']_vars

\* ------------------------------------------------------------------ C6

StopProgressReturns(b) ==
    /\ lastReturn'.op = "stopProgress"
    /\ lastReturn'.ret = RetBool(b)

\* C6 as amended: stopProgress(h) succeeds exactly when the state is not
\* PROGRESS and h is absent or is the progress instance the cell owns, and then
\* the cell gives up the instance; otherwise it returns false and the state,
\* the content and the progress instance stay as they are
C6_StopProgressOutcome ==
    [][lastReturn'.op = "stopProgress" =>
        IF /\ m_state # "PROGRESS"
           /\ lastReturn'.arg \in {Null, m_progress}
        THEN /\ StopProgressReturns(TRUE)
             /\ m_progress' = Null
             /\ UNCHANGED <<m_state, m_content>>
        ELSE /\ StopProgressReturns(FALSE)
             /\ UNCHANGED cellVars]_vars

\* stopProgress(p) succeeded on a settled cell that still owned p
C6_Witness ==
    /\ lastReturn.op = "stopProgress"
    /\ lastReturn.ret = RetBool(TRUE)
    /\ lastReturn.arg \in ProgressIds
    /\ m_progress = Null
    /\ m_state \in {"VALUE", "ERROR"}

\* C6 as stated: stopProgress(h) succeeds exactly when the state is PROGRESS
\* and h is absent or is the live progress instance
C6_SucceedsInProgress ==
    [][lastReturn'.op = "stopProgress" =>
        IF /\ m_state = "PROGRESS"
           /\ lastReturn'.arg \in {Null, m_progress}
        THEN /\ StopProgressReturns(TRUE)
             /\ m_progress' = Null
             /\ UNCHANGED <<m_state, m_content>>
        ELSE /\ StopProgressReturns(FALSE)
             /\ UNCHANGED cellVars]_vars

\* ------------------------------------------------------------------ C7

\* a thread calls startProgressMove in this step
StartProgressCalled ==
    /\ budget' < budget
    /\ \/ lastReturn'.op = "startProgressMove"
       \/ \E t \in Threads : op[t] = "none" /\ op'[t] = "startProgressMove"

\* C7: startProgressMove called in state PROGRESS returns nullptr, emits no
\* stateChanged, wakes no waiter, and leaves the state, the progress instance
\* and the content as they are
C7_SecondStartRefused ==
    [][(StartProgressCalled /\ m_state = "PROGRESS") =>
        /\ lastReturn'.op = "startProgressMove"
        /\ lastReturn'.ret = RetPtr(Null)
        /\ stateChanged' = NoSignal
        /\ UNCHANGED <<cellVars, waitVars, pc>>]_vars

\* a second startProgressMove was refused while a thread was blocked in wait
C7_Witness ==
    /\ lastReturn.op = "startProgressMove"
    /\ lastReturn.ret = RetPtr(Null)
    /\ m_state = "PROGRESS"
    /\ m_progress \in ProgressIds
    /\ \E t \in Threads : pc[t] = "w_prim_wait"

\* ------------------------------------------------------------------ C8

\* C8: in state PROGRESS with progress instance p1, stopProgress(h) with h not
\* null and not p1 returns false, emits no stateChanged and leaves the state
\* PROGRESS and p1 the progress instance
C8_MismatchChangesNothing ==
    [][(/\ lastReturn'.op = "stopProgress"
        /\ m_state = "PROGRESS"
        /\ lastReturn'.arg \notin {Null, m_progress}) =>
            /\ StopProgressReturns(FALSE)
            /\ stateChanged' = NoSignal
            /\ m_state' = "PROGRESS"
            /\ UNCHANGED cellVars]_vars

\* stopProgress(h) has returned false for a handle other than the live one
C8_Witness ==
    /\ lastReturn.op = "stopProgress"
    /\ lastReturn.ret = RetBool(FALSE)
    /\ m_state = "PROGRESS"
    /\ m_progress \in ProgressIds
    /\ lastReturn.arg \in ProgressIds \ {m_progress}

\* ------------------------------------------------------------------ C9

\* the cell holds a value or an error
Settled(st) == st \in {"VALUE", "ERROR"}

\* what a call that takes the callable of the current settled state invokes
SettledInvocation ==
    IF m_state = "ERROR" THEN <<Invocation("errorPred", m_content.error)>>
    ELSE <<Invocation("valuePred", m_content.value)>>

\* the state and the content after moveValue(x) / moveError(x)
ContentAfter(o, x) ==
    IF o = "moveError"
        THEN m_state = "ERROR" /\ m_content = [value |-> Null, error |-> x]
        ELSE m_state = "VALUE" /\ m_content = [value |-> x, error |-> Null]

\* the overloads that take the callable of state st
TakesCallableOf(st) ==
    IF st = "ERROR" THEN {"access3", "access2", "accessError", "wait"}
    ELSE {"access3", "access2", "access1", "wait"}

C9_Settled ==
    /\ lastReturn.op \in {"moveValue", "moveError"} =>
            /\ lastReturn.ret = RetVoid
            /\ ContentAfter(lastReturn.op, lastReturn.arg)
    /\ m_state = "ERROR" => m_content.error \in Payloads /\ m_content.value = Null
    /\ m_state = "VALUE" => m_content.value \in Payloads /\ m_content.error = Null
    /\ (Settled(m_state) /\ invoked # <<>>) => invoked = SettledInvocation

C9_Step ==
    /\ \A t \in Threads :
        (op[t] = "none" /\ op'[t] # "none" /\ Settled(m_state)) =>
            IF op'[t] \in TakesCallableOf(m_state)
                THEN invoked' = SettledInvocation
                ELSE invoked' = <<>>
    /\ \A t \in Threads :
        (pc[t] \in {"mv_swap", "me_swap"} /\ pc'[t] # pc[t]) =>
            ContentAfter(op[t], arg[t])'
    /\ cellVars' # cellVars =>
        \/ \E t \in Threads :
                pc[t] \in {"mv_swap", "me_swap", "sp_swap"} /\ pc'[t] # pc[t]
        \/ lastReturn'.op = "stopProgress"

\* C9: moveError(e) puts the cell in state ERROR with e as its only content,
\* whatever the state was, and so it stays until the next mutation; every
\* access, accessError and wait made in that state invokes the error callable
\* once with e and nothing else, no overload reaches the old content; and the
\* same for moveValue(v)
C9_SetReplacesContent == []C9_Settled /\ [][C9_Step]_vars

\* an error set by moveError has been handed to an error callable
C9_Witness ==
    /\ m_state = "ERROR"
    /\ m_content.error # InitialPayload
    /\ invoked = <<Invocation("errorPred", m_content.error)>>

\* ------------------------------------------------------------------ C10

\* C10: a wait called on a settled cell invokes the matching callable once and
\* returns from the easy case: it does not lock m_writeLock, does not publish or
\* join a Waiter, does not block, and the state, the content and m_waiter stay
\* as they are
C10_Step ==
    \A t \in Threads :
        /\ (op[t] = "none" /\ op'[t] = "wait" /\ Settled(m_state)) =>
                /\ pc'[t] = "w_fastHit"
                /\ called'[t] = SettledInvocation
                /\ UNCHANGED <<cellVars, m_writeLock, waitVars>>
        /\ (pc[t] = "w_fastHit" /\ pc'[t] # "w_fastHit") =>
                /\ pc'[t] = "idle"
                /\ lastReturn' = [op |-> "wait", arg |-> Null, ret |-> RetVoid,
                                  called |-> called[t]]
                /\ invoked' = <<>>
                /\ UNCHANGED <<cellVars, m_writeLock, waitVars>>

C10_SettledWaitIsFast ==
    /\ [](\A t \in Threads : pc[t] = "w_fastHit" =>
            /\ Settled(m_state)
            /\ called[t] = SettledInvocation
            /\ m_writeLock # t
            /\ cv[t] = Null)
    /\ [][C10_Step]_vars

\* two threads are in the easy case of wait at once
C10_Witness ==
    /\ \E t, u \in Threads :
        t # u /\ pc[t] = "w_fastHit" /\ pc[u] = "w_fastHit"
    /\ m_waiter = Null

\* ------------------------------------------------------------------ C11

C11_Stopped ==
    /\ m_state = "ERROR"
    /\ m_content.error = StoppedError

\* a wait or stopAndWait that returned went through the error path with
\* "Stopped"
C11_ReturnedStopped ==
    lastReturn.op \in {"wait", "stopAndWait"} =>
        /\ C11_Stopped
        /\ lastReturn.called # <<>>
        /\ lastReturn.called[Len(lastReturn.called)]
             = Invocation("errorPred", StoppedError)

\* C11: when stopAndWait is called in state PROGRESS and the operation polls
\* isStopRequested and sets the error "Stopped" once it is set, and nothing
\* else changes the cell, then under fair scheduling the stop flag of the live
\* progress gets set, the cell reaches ERROR with "Stopped" for good, every
\* stopAndWait and wait returns, and each of them returns through the error
\* callable with "Stopped"
C11_StopIsLive ==
    /\ <>stopRequested
    /\ <>[](C11_Stopped /\ AllReturned)
    /\ []C11_ReturnedStopped

\* stopAndWait has returned after the stop request and the error "Stopped"
C11_Witness ==
    /\ lastReturn.op = "stopAndWait"
    /\ lastReturn.called = <<Invocation("progressPred", m_progress),
                             Invocation("errorPred", StoppedError)>>
    /\ stopRequested
    /\ C11_Stopped

\* ------------------------------------------------------------------ C12

\* the positions of moveValue, moveError and startProgressMove between
\* QMutexLocker writeLocker(&m_writeLock) and the unlock at their return
WriteSection ==
    {"mv_swap", "mv_unlockC", "mv_emit", "mv_wake",
     "me_swap", "me_unlockC", "me_emit", "me_wake",
     "sp_swap", "sp_unlockC", "sp_emit", "sp_ret"}

\* the positions of wait from which the next step runs under m_writeLock: the
\* second check with the registration, and what follows a wake-up
WaitSection == {"w_lockW", "w_prim_woken", "w_sub_woken", "w_prim_drained"}

C12_OneWriter ==
    /\ Cardinality({t \in Threads : pc[t] \in WriteSection}) <= 1
    /\ \A t \in Threads : pc[t] \in WriteSection => m_writeLock = t

C12_Step ==
    /\ \A u \in Threads :
          (pc[u] \in WaitSection /\ pc'[u] # pc[u]) => m_writeLock = Null
    /\ <<m_state, m_content, m_progress, m_waiter>>'
          # <<m_state, m_content, m_progress, m_waiter>> =>
            \/ \E t \in Threads :
                  /\ m_writeLock = t
                  /\ pc[t] \in WriteSection
                  /\ pc'[t] # pc[t]
                  /\ \A u \in Threads \ {t} : pc'[u] = pc[u]
            \/ /\ m_writeLock = Null
               /\ m_writeLock' = Null
               /\ \/ \E t \in Threads : pc[t] \in WaitSection /\ pc'[t] # pc[t]
                  \/ lastReturn'.op = "stopProgress"

\* C12: at most one thread is between taking and releasing the write lock in
\* moveValue, moveError or startProgressMove, and it is the holder of the lock;
\* a step of wait's second check, registration or wake-up handling is taken
\* only when no thread holds the lock; state, content, progress and m_waiter
\* change only in a step of the holder, or in a step of wait or stopProgress
\* that took the free lock and released it
C12_MutationsOrdered == []C12_OneWriter /\ [][C12_Step]_vars

\* one thread is inside moveValue's swap while another mutator has just
\* finished and a waiter stands before the write lock
C12_Witness ==
    \E t, u \in Threads :
        /\ pc[t] \in {"mv_unlockC", "sp_unlockC"}
        /\ m_writeLock = t
        /\ pc[u] \in WaitSection

\* ------------------------------------------------------------------ C13

\* the callables overload o takes, by the state each of them is for
C13_Takes(o) ==
    CASE o = "access3" ->
            [VALUE |-> "valuePred", ERROR |-> "errorPred", PROGRESS |-> "progressPred"]
      [] o = "access2" ->
            [VALUE |-> "valuePred", ERROR |-> "errorPred", PROGRESS |-> "none"]
      [] o = "access1" ->
            [VALUE |-> "valuePred", ERROR |-> "none", PROGRESS |-> "none"]
      [] o = "accessError" ->
            [VALUE |-> "none", ERROR |-> "errorPred", PROGRESS |-> "none"]
      [] o = "accessProgress" ->
            [VALUE |-> "none", ERROR |-> "none", PROGRESS |-> "progressPred"]

\* the payload of the current state
C13_Payload ==
    CASE m_state = "VALUE" -> m_content.value
      [] m_state = "ERROR" -> m_content.error
      [] m_state = "PROGRESS" -> m_progress

\* a thread inside an access overload holds the read lock and has invoked at
\* most one callable: the one its overload has for the current state, with
\* the current payload; a boolean overload is about to return true exactly
\* when it invoked one
C13_Reader(t) ==
    /\ t \in m_contentLock.readers
    /\ m_contentLock.writer = Null
    /\ IF C13_Takes(op[t])[m_state] = "none"
          THEN called[t] = <<>>
          ELSE /\ called[t] = <<Invocation(C13_Takes(op[t])[m_state], C13_Payload)>>
               /\ C13_Payload # Null
    /\ IF op[t] = "access3"
          THEN ret[t] = RetVoid /\ called[t] # <<>>
          ELSE ret[t] = RetBool(called[t] # <<>>)

C13_Readers == \A t \in Threads : pc[t] = "acc_unlockR" => C13_Reader(t)

\* while a reader holds the read lock no step changes the state or the
\* content or takes the content lock for writing
C13_Step ==
    m_contentLock.readers # {} =>
        /\ UNCHANGED <<m_state, m_content>>
        /\ m_contentLock'.writer = Null

\* C13: a call of an access overload invokes at most one callable, the one
\* for the state read under the read lock, with that state's payload; the
\* boolean overloads return true exactly when a callable was invoked; while a
\* reader is inside, state and content do not change
C13_AccessIsConsistent == []C13_Readers /\ [][C13_Step]_vars

\* two readers are inside their callables at the same time
C13_Witness ==
    \E t, u \in Threads :
        /\ t # u
        /\ pc[t] = "acc_unlockR" /\ pc[u] = "acc_unlockR"
        /\ called[t] # <<>> /\ called[u] # <<>>
        /\ m_contentLock.readers = {t, u}

\* ------------------------------------------------------------------ C14

\* the state a mutator stores
C14_Tag(o) ==
    CASE o = "moveValue" -> "VALUE"
      [] o = "moveError" -> "ERROR"
      [] o = "startProgressMove" -> "PROGRESS"
      [] OTHER -> "none"

C14_SwapAt == {"mv_swap", "me_swap", "sp_swap"}
C14_SwappedAt == {"mv_unlockC", "me_unlockC", "sp_unlockC"}
C14_EmitAt == {"mv_emit", "me_emit", "sp_emit"}
C14_EmittedAt == {"mv_wake", "me_wake", "sp_ret"}

\* a thread that has swapped and not yet notified holds the write lock, and
\* the state is still the one it stored
C14_Pending ==
    \A t \in Threads :
        pc[t] \in C14_SwappedAt \cup C14_EmitAt =>
            /\ m_writeLock = t
            /\ m_state = C14_Tag(op[t])

C14_Step ==
    \* a notification is emitted by a mutator that has swapped, with the
    \* content lock released and the write lock held before and after, and
    \* it carries the state the mutator stored
    /\ stateChanged' # NoSignal =>
          \E t \in Threads :
              /\ pc[t] \in C14_EmitAt
              /\ pc'[t] \in C14_EmittedAt
              /\ m_writeLock = t /\ m_writeLock' = t
              /\ m_contentLock.writer = Null /\ m_contentLock'.writer = Null
              /\ stateChanged' = C14_Tag(op[t])
              /\ stateChanged' = m_state'
              /\ UNCHANGED <<m_state, m_content, m_progress>>
    \* every change of the state or the content is a swap, and a thread goes
    \* from its swap to its return only through one notification
    /\ <<m_state, m_content>>' # <<m_state, m_content>> =>
          \E t \in Threads : pc[t] \in C14_SwapAt /\ pc'[t] \in C14_SwappedAt
    /\ \A t \in Threads :
          pc'[t] # pc[t] =>
              /\ pc[t] \in C14_SwapAt => pc'[t] \in C14_SwappedAt
              /\ pc[t] \in C14_SwappedAt => pc'[t] \in C14_EmitAt
              /\ pc[t] \in C14_EmitAt =>
                    pc'[t] \in C14_EmittedAt /\ stateChanged' = m_state
              /\ pc'[t] \in C14_EmittedAt => pc[t] \in C14_EmitAt
              /\ pc[t] \in C14_EmittedAt => pc'[t] = "idle" /\ stateChanged' = NoSignal
    \* a call that fails notifies nothing
    /\ (\/ lastReturn'.op = "stopProgress"
        \/ /\ lastReturn'.op = "startProgressMove"
           /\ lastReturn'.ret = RetPtr(Null)) =>
          stateChanged' = NoSignal

\* C14: every moveValue, moveError and startProgressMove that swaps emits
\* exactly one stateChanged with the state it stored, on its own thread, after
\* the content lock is released and before the write lock is released; the
\* state does not change between the swap and its notification, so the
\* notified states are the states of the cell in order; a refused
\* startProgressMove and stopProgress emit nothing
C14_OneNotificationPerChange == []C14_Pending /\ [][C14_Step]_vars

\* startProgressMove has just notified PROGRESS, its write lock still held
C14_Witness ==
    \E t \in Threads :
        /\ pc[t] = "sp_ret"
        /\ stateChanged = "PROGRESS"
        /\ m_state = "PROGRESS"
        /\ m_writeLock = t
        /\ m_contentLock.writer = Null

\* ------------------------------------------------------------------ C15

C15_Blocked == {"w_prim_wait", "w_sub_wait"}
C15_Woken == {"w_prim_woken", "w_sub_woken"}

\* thread t, about to wake the waiters, has stored its payload and state
C15_HasSwapped(t) ==
    \/ /\ pc[t] = "mv_wake"
       /\ m_state = "VALUE"
       /\ m_content = [value |-> arg[t], error |-> Null]
    \/ /\ pc[t] = "me_wake"
       /\ m_state = "ERROR"
       /\ m_content = [value |-> Null, error |-> arg[t]]

C15_Step ==
    \* a waiter leaves waitValue in the last step of a moveValue or moveError
    \* that holds the write lock, has swapped and released the content lock;
    \* that step ends with the release of the write lock
    /\ \A u \in Threads :
          (pc[u] \in C15_Blocked /\ pc'[u] \in C15_Woken) =>
              \E t \in Threads \ {u} :
                  /\ C15_HasSwapped(t)
                  /\ m_writeLock = t
                  /\ m_contentLock.writer = Null
                  /\ cv[u] = m_waiter
                  /\ pc'[t] = "idle"
                  /\ m_writeLock' = Null
                  /\ UNCHANGED <<m_state, m_content>>
    \* the waking step is reached only through the notification of the swap
    /\ \A t \in Threads :
          (pc'[t] \in {"mv_wake", "me_wake"} /\ pc[t] # pc'[t]) =>
              /\ pc[t] \in {"mv_emit", "me_emit"}
              /\ stateChanged' # NoSignal
              /\ pc' = [pc EXCEPT ![t] = pc'[t]]
    \* a woken waiter goes on, and invokes its callable, only in a step that
    \* starts with the write lock free
    /\ \A u \in Threads :
          pc[u] \in C15_Woken =>
              IF pc'[u] # pc[u]
                  THEN m_writeLock = Null /\ m_contentLock.writer = Null
                  ELSE called'[u] = called[u]

\* C15: a waiter blocked on waitValue is woken by a moveValue or moveError
\* only after that call has swapped the content and emitted stateChanged: the
\* order in the call is swap, notification, wakeAll, release of the write
\* lock; the woken waiter invokes its callable only after it has the write
\* lock again
C15_WakeAfterSwapAndNotify == [][C15_Step]_vars

\* a waiter has been woken by a moveValue or moveError that has returned
C15_Witness ==
    /\ lastReturn.op \in {"moveValue", "moveError"}
    /\ m_writeLock = Null
    /\ \E u \in Threads : pc[u] \in C15_Woken /\ called[u] = <<>>

\* ------------------------------------------------------------------ C16

\* C16 as claimed: with no thread inside a mutator, the cell holds a progress
\* instance exactly when its state is PROGRESS
C16_HeldOnlyInProgress ==
    m_writeLock = Null => (m_progress # Null <=> m_state = "PROGRESS")

C16_HeldInProgress == m_state = "PROGRESS" => m_progress \in ProgressIds

C16_Step ==
    \* the swaps of moveValue and moveError leave the progress instance owned
    /\ \A t \in Threads :
          (pc[t] \in {"mv_swap", "me_swap"} /\ pc'[t] # pc[t]) =>
              /\ m_state' \in {"VALUE", "ERROR"}
              /\ m_progress' = m_progress
    \* it is replaced by the swap of startProgressMove and released by a
    \* stopProgress that succeeds, which takes a state that is not PROGRESS
    /\ m_progress' # m_progress =>
          \/ \E t \in Threads :
                /\ pc[t] = "sp_swap"
                /\ pc'[t] = "sp_unlockC"
                /\ m_progress' = arg[t]
          \/ /\ lastReturn'.op = "stopProgress"
             /\ lastReturn'.ret = RetBool(TRUE)
             /\ m_state # "PROGRESS"
             /\ m_progress' = Null

\* C16 amended: in state PROGRESS the cell holds a progress instance; a
\* moveValue or moveError leaves it owned, and it stays until the next
\* startProgressMove replaces it or a successful stopProgress releases it
C16_HeldUntilStopProgress == []C16_HeldInProgress /\ [][C16_Step]_vars

\* moveValue has returned over a progress and the cell still owns the instance
C16_Witness ==
    /\ lastReturn.op = "moveValue"
    /\ m_writeLock = Null
    /\ m_state = "VALUE"
    /\ m_progress \in ProgressIds

\* ------------------------------------------------------------------ C17

\* C17: the state and the storage agree: in VALUE the value is filled and
\* the error empty, in ERROR the error is filled and the value empty, in
\* PROGRESS both are empty and the cell holds a progress instance; so no
\* callable is ever invoked on an empty slot, whatever calls of moveValue,
\* moveError, startProgressMove and stopProgress succeeded or failed before
C17_StateMatchesStorage ==
    /\ m_state = "VALUE" =>
          m_content.value \in Payloads /\ m_content.error = Null
    /\ m_state = "ERROR" =>
          m_content.error \in Payloads /\ m_content.value = Null
    /\ m_state = "PROGRESS" =>
          m_content = EmptyContent /\ m_progress \in ProgressIds
    /\ \A i \in DOMAIN invoked : invoked[i].with # Null
    /\ \A t \in Threads : \A i \in DOMAIN called[t] : called[t][i].with # Null

\* a stopProgress has just failed in state PROGRESS, after a progress was
\* started over a settled cell
C17_Witness ==
    /\ lastReturn.op = "stopProgress"
    /\ lastReturn.ret = RetBool(FALSE)
    /\ m_state = "PROGRESS"
    /\ m_content = EmptyContent
    /\ m_progress \in ProgressIds

\* ------------------------------------------------------------------ C18

\* the local oldContent of thread t goes out of scope with a payload in it
C18_ContentDestroyed(t) ==
    /\ oldContent[t] # EmptyContent
    /\ oldContent'[t] = EmptyContent

\* the assignment to m_progress overwrites an instance, which destroys it
C18_ProgressDestroyed ==
    /\ m_progress # Null
    /\ m_progress' # m_progress

\* C18: a payload of the cell is destroyed only by a thread that holds
\* neither the write lock nor the content lock: the superseded value or error
\* when oldContent goes out of scope after both locks are released, and
\* likewise a progress instance replaced by startProgressMove or released by
\* stopProgress (all of stopProgress runs under the write lock)
C18_DestroyedOutsideLocks ==
    [][/\ \A t \in Threads :
            C18_ContentDestroyed(t) =>
                m_writeLock' # t /\ m_contentLock'.writer # t
       /\ C18_ProgressDestroyed =>
            /\ m_writeLock' = Null
            /\ m_contentLock'.writer = Null
            /\ lastReturn'.op # "stopProgress"]_vars

\* ------------------------------------------------------------------ C19

\* thread t is blocked on a QWaitCondition inside stopAndWait
C19_BlockedInStopAndWait(t) ==
    /\ op[t] = "stopAndWait"
    /\ pc[t] \in {"w_prim_wait", "w_sub_wait", "w_prim_drain"}

\* C19: whenever a thread is blocked on a condition variable inside
\* stopAndWait and a progress is live, requestStop() has been called on the
\* live progress instance
C19_BlockedOnlyOnStoppedProgress ==
    \A t \in Threads :
        (C19_BlockedInStopAndWait(t) /\ m_state = "PROGRESS") => stopRequested

\* ------------------------------------------------------------------ C20

\* thread t is blocked on a QWaitCondition of a wait group
C20_OnCondition(t) ==
    pc[t] \in {"w_prim_wait", "w_sub_wait", "w_prim_drain", "w_dangling"}

\* thread t is inside a call and not blocked on a QWaitCondition
C20_Running(t) == pc[t] # "idle" /\ ~C20_OnCondition(t)

\* a step of thread t inside the call it is in
C20_Continue(t) ==
    \/ moveValue_swap(t) \/ moveValue_unlockC(t)
    \/ moveValue_emit(t) \/ moveValue_wake(t)
    \/ moveError_swap(t) \/ moveError_unlockC(t)
    \/ moveError_emit(t) \/ moveError_wake(t)
    \/ startProgressMove_swap(t) \/ startProgressMove_unlockC(t)
    \/ startProgressMove_emit(t) \/ startProgressMove_ret(t)
    \/ access_leave(t)
    \/ wait_slow(t)

\* C20: the locks are taken in the order write lock, content lock, so the
\* threads inside moveValue, moveError, startProgressMove, stopProgress, the
\* access overloads and wait are never all stuck: as long as the process runs
\* and some thread is inside a call and not blocked on a QWaitCondition, one
\* such thread can take its next step; only waiters on a QWaitCondition can
\* stay blocked for ever
C20_OnlyWaitersStayBlocked ==
    (~crashed /\ \E t \in Threads : C20_Running(t)) =>
        \E t \in Threads : C20_Running(t) /\ ENABLED C20_Continue(t)

====
